---- MODULE Spec2Model ----
(***************************************************************************)
(* A model of dvc-run: the layered parallel scheduler (executor.py), the   *)
(* freshness oracle (freshness.py) and the manifest store (lock.py).       *)
(*                                                                         *)
(* Six specifications share the variables:                                 *)
(*   FreshSpec  the two pure oracle functions applied to bounded inputs;   *)
(*   LockSpec   concurrent update_stage calls and an unlocked parse;       *)
(*   Spec       ParallelExecutor.execute over a small family of pipelines; *)
(*   RaceSpec   Spec with another process rewriting an input file;         *)
(*   OptSpec    Spec for every dry_run and update_lock of the constructor; *)
(*   CliSpec    cli.main from its options to the executor's construction.  *)
(***************************************************************************)
EXTENDS Integers, Sequences, FiniteSets, TLC

VARIABLES
    fs,            \* the file system: path -> [kind, data]
    q_stage,       \* FreshSpec: the Stage given to the oracle
    q_state,       \* FreshSpec: the recorded state given (None or Some)
    q_fresh,       \* FreshSpec: outcome of is_stage_fresh (None before the call)
    q_reason,      \* FreshSpec: outcome of get_freshness_reason (None before the call)
    disk,          \* the manifest directory: path -> None or Some(file [ino, doc, written])
    next_ino,      \* the next unused inode number
    file_lock,     \* holder of the sidecar FileLock: None or Some(stage name)
    pc,            \* per stage: where the thread that handles it is
    upd,           \* per stage: the arguments and locals of its update_stage call
    upd_calls,     \* per stage: number of update_stage calls made
    last_entry,    \* per stage: the entry its last completed rename installed (history)
    rd_pc,         \* the reader (DVCLockParser.parse): its position
    rd_fd,         \* the reader's open file: None or Some([ino, snap])
    rd_seen,       \* what the reader's yaml.safe_load saw: None or Some(file content)
    rd_at_open,    \* what the canonical path held when the reader opened it (history)
    stages,        \* dag.stages: stage name -> Stage
    levels,        \* execute's levels = dag.topological_sort()
    lock_states,   \* the snapshot parsed at construction: stage name -> StageState
    cpc,           \* where the thread that called execute is
    level,         \* level_num: the level being run (from 1)
    level_results, \* the results list of _execute_level
    results,       \* the results list of execute
    ret,           \* per stage: the outcome of _execute_stage (None until it ends)
    runner_calls,  \* per stage: number of dvc.run_stage calls (history)
    run,           \* which run of the pipeline this is (history)
    prev_run,      \* None, or Some(what the previous run executed and omitted) (history)
    runner_out,    \* per stage: how its dvc.run_stage call ended, None before (history)
    failed_stages, \* None, or Some(the stage names in the error execute raised)
    dvc_installed, \* whether the dvc executable is on the host
    cli,           \* the command-line invocation: its arguments, position and exit code
    dry_run,       \* self.dry_run: the executor only logs the plan
    update_lock    \* self.update_lock: the executor records the stages it runs

oracle_vars == <<q_stage, q_state, q_fresh, q_reason>>
store_vars == <<disk, next_ino, file_lock, upd, upd_calls, last_entry>>
reader_vars == <<rd_pc, rd_fd, rd_seen, rd_at_open>>
exec_vars == <<stages, levels, lock_states, cpc, level, level_results, results, ret,
               runner_calls, run, prev_run, runner_out, failed_stages, dvc_installed, cli, dry_run, update_lock>>
vars == <<fs, oracle_vars, store_vars, pc, reader_vars, exec_vars>>

---------------------------------------------------------------------------
(* Bounds *)

\* file contents are 1..MaxContent
MaxContent == 2
\* longest deps / outs list the oracle is applied to
MaxLen == 2
\* update_stage calls per stage in LockSpec
MaxUpdates == 2
\* max_workers given to the executor
MaxWorkers == 2
\* consecutive runs of the pipeline
MaxRuns == 2

---------------------------------------------------------------------------
(* Python values *)

None == <<>>
Some(x) == <<x>>

\* dict.get(key)
DictGet(d, k) == IF k \in DOMAIN d THEN Some(d[k]) ELSE None

\* the outcome of a call: a returned value, or the class of a raised exception
Ret(v) == [exc |-> "", val |-> v]
Raise(e, v) == [exc |-> e, val |-> v]

Contents == 1..MaxContent

\* A path is absent, a regular file with some content, a special file
\* (neither file nor directory), or a file whose read fails.
FileKinds == {"missing", "file", "special", "unreadable"}
Missing == [kind |-> "missing", data |-> 0]
RegularFile(c) == [kind |-> "file", data |-> c]
SpecialFile == [kind |-> "special", data |-> 0]
UnreadableFile == [kind |-> "unreadable", data |-> 0]
FileStates == {Missing, SpecialFile, UnreadableFile} \cup {RegularFile(c) : c \in Contents}

\* Path.exists()
path_exists(files, p) == files[p].kind # "missing"

\* the digest of content c; the manifest's default md5 is the empty string
md5_of(c) == <<"md5", c>>
EmptyMd5 == <<>>

\* hash.compute_md5: the digest, FileMissing for an absent path, an error
\* for a special file, IoError when the read fails
compute_md5(files, p) ==
    CASE files[p].kind = "missing"    -> Raise("FileNotFoundError", EmptyMd5)
      [] files[p].kind = "special"    -> Raise("ValueError", EmptyMd5)
      [] files[p].kind = "unreadable" -> Raise("OSError", EmptyMd5)
      [] OTHER                        -> Ret(md5_of(files[p].data))

\* hash.compute_file_size
compute_file_size(files, p) == files[p].data

\* except (FileNotFoundError, ValueError)
CaughtHashErrors == {"FileNotFoundError", "ValueError"}

---------------------------------------------------------------------------
(* freshness.py *)

\* a check that asks only for a recorded path that exists
check_file_hash_exists(file_path, recorded_info, files) ==
    IF recorded_info = None THEN Ret(FALSE)
    ELSE Ret(path_exists(files, file_path))

\* _check_file_hash(file_path, recorded_info)
check_file_hash(file_path, recorded_info, files) ==
    IF recorded_info = None THEN Ret(FALSE)
    ELSE IF ~path_exists(files, file_path) THEN Ret(FALSE)
    ELSE LET h == compute_md5(files, file_path) IN
         IF h.exc = "" THEN Ret(h.val = recorded_info[1].md5)
         ELSE IF h.exc \in CaughtHashErrors THEN Ret(FALSE)
         ELSE Raise(h.exc, FALSE)

\* the two for-loops of is_stage_fresh, from index i on
RECURSIVE all_files_match(_, _, _, _)
all_files_match(paths, recorded, files, i) ==
    IF i > Len(paths) THEN Ret(TRUE)
    ELSE LET r == check_file_hash(paths[i], DictGet(recorded, paths[i]), files) IN
         IF r.exc # "" THEN r
         ELSE IF ~r.val THEN Ret(FALSE)
         ELSE all_files_match(paths, recorded, files, i + 1)

is_stage_fresh_no_outs(stage, lock_state, files) ==
    IF lock_state = None THEN Ret(FALSE)
    ELSE IF stage.cmd # lock_state[1].cmd THEN Ret(FALSE)
    ELSE all_files_match(stage.deps, lock_state[1].deps, files, 1)

\* a stage the manifest does not record taken as fresh
is_stage_fresh_unrecorded(stage, lock_state, files) ==
    IF lock_state = None THEN Ret(TRUE)
    ELSE IF stage.cmd # lock_state[1].cmd THEN Ret(FALSE)
    ELSE LET d == all_files_match(stage.deps, lock_state[1].deps, files, 1) IN
         IF d.exc # "" \/ ~d.val THEN d
         ELSE all_files_match(stage.outs, lock_state[1].outs, files, 1)

\* freshness.is_stage_fresh
is_stage_fresh(stage, lock_state, files) ==
    IF lock_state = None THEN Ret(FALSE)
    ELSE IF stage.cmd # lock_state[1].cmd THEN Ret(FALSE)
    ELSE LET d == all_files_match(stage.deps, lock_state[1].deps, files, 1) IN
         IF d.exc # "" \/ ~d.val THEN d
         ELSE all_files_match(stage.outs, lock_state[1].outs, files, 1)

\* one of the two for-loops of get_freshness_reason, from index i on; what is
\* "dependency" or "output"; None when the loop ends without returning
RECURSIVE first_reason(_, _, _, _, _)
first_reason(paths, recorded, files, what, i) ==
    IF i > Len(paths) THEN Ret(None)
    ELSE LET p == paths[i]
             recorded_info == DictGet(recorded, p)
         IN  IF recorded_info = None THEN Ret(Some(<<"new", what, p>>))
             ELSE IF ~path_exists(files, p) THEN Ret(Some(<<"missing", what, p>>))
             ELSE LET h == compute_md5(files, p) IN
                  IF h.exc = "" THEN
                      IF h.val # recorded_info[1].md5
                      THEN Ret(Some(<<what, "changed", p>>))
                      ELSE first_reason(paths, recorded, files, what, i + 1)
                  ELSE IF h.exc \in CaughtHashErrors
                  THEN Ret(Some(<<"error reading", what, p>>))
                  ELSE Raise(h.exc, None)

UpToDate == <<"up-to-date">>

get_freshness_reason_outs_first(stage, lock_state, files) ==
    IF lock_state = None THEN Ret(<<"never run before">>)
    ELSE IF stage.cmd # lock_state[1].cmd THEN Ret(<<"command changed">>)
    ELSE LET o == first_reason(stage.outs, lock_state[1].outs, files, "output", 1) IN
         IF o.exc # "" THEN Raise(o.exc, <<>>)
         ELSE IF o.val # None THEN Ret(o.val[1])
         ELSE LET d == first_reason(stage.deps, lock_state[1].deps, files, "dependency", 1) IN
              IF d.exc # "" THEN Raise(d.exc, <<>>)
              ELSE IF d.val # None THEN Ret(d.val[1])
              ELSE Ret(UpToDate)

get_freshness_reason(stage, lock_state, files) ==
    IF lock_state = None THEN Ret(<<"never run before">>)
    ELSE IF stage.cmd # lock_state[1].cmd THEN Ret(<<"command changed">>)
    ELSE LET d == first_reason(stage.deps, lock_state[1].deps, files, "dependency", 1) IN
         IF d.exc # "" THEN Raise(d.exc, <<>>)
         ELSE IF d.val # None THEN Ret(d.val[1])
         ELSE LET o == first_reason(stage.outs, lock_state[1].outs, files, "output", 1) IN
              IF o.exc # "" THEN Raise(o.exc, <<>>)
              ELSE IF o.val # None THEN Ret(o.val[1])
              ELSE Ret(UpToDate)

\* lock.FileInfo
FileInfo(p, m, sz) == [path |-> p, md5 |-> m, size |-> sz]

---------------------------------------------------------------------------
(* lock.py: the manifest file *)

Names == {"a", "b", "c"}

\* every path, in the order sorted() gives strings
PathOrder == <<"a.txt", "b.txt", "c.txt", "x.txt">>
Paths == {PathOrder[i] : i \in 1..Len(PathOrder)}

lock_path == "dvc.lock"
temp_path_in_place == lock_path
\* self.lock_path.with_suffix('.tmp')
temp_path == "dvc.tmp"
DiskPaths == {lock_path, temp_path}

EmptyMap == [x \in {} |-> 0]
MapPut(m, k, v) == [x \in (DOMAIN m) \cup {k} |-> IF x = k THEN v ELSE m[x]]

\* A YAML document: the keys 'schema' and 'stages', each absent (None) or
\* present.  NoDoc is the empty document (safe_load gives None, read as {}).
NoDoc == [schema |-> None, stages |-> None]

\* A file holds the text of doc as far as it has been written.
File(ino, doc, written) == [ino |-> ino, doc |-> doc, written |-> written]

\* yaml.safe_load of what a file holds now: nothing, the first key, or all
visible(f) ==
    CASE f.written = "empty"   -> NoDoc
      [] f.written = "partial" -> [schema |-> f.doc.schema, stages |-> None]
      [] OTHER                 -> f.doc

\* the content now behind inode ino, if a path still names it
inode_content(d, ino) ==
    LET at == {p \in DiskPaths : d[p] # None /\ d[p][1].ino = ino} IN
    IF at = {} THEN None ELSE d[CHOOSE p \in at : TRUE]

\* DVCLockParser._parse_stage: the lists of records become dicts by path
list_to_dict(records) ==
    IF records = None THEN EmptyMap
    ELSE LET l == records[1] IN
         [p \in {l[i].path : i \in 1..Len(l)} |->
             LET i == CHOOSE i \in 1..Len(l) :
                          l[i].path = p /\ \A j \in (i + 1)..Len(l) : l[j].path # p
             IN  FileInfo(p, l[i].md5, l[i].size)]

\* a parser that leaves the outs out
parse_stage_no_outs(stage_data) ==
    [cmd |-> stage_data.cmd, deps |-> list_to_dict(stage_data.deps), outs |-> EmptyMap]

\* DVCLockParser._parse_stage
parse_stage(stage_data) ==
    [cmd |-> stage_data.cmd,
     deps |-> list_to_dict(stage_data.deps),
     outs |-> list_to_dict(stage_data.outs)]

\* DVCLockParser.parse, from the loaded document on
parse_doc(lock) ==
    IF lock.stages = None THEN EmptyMap
    ELSE [n \in DOMAIN lock.stages[1] |-> parse_stage(lock.stages[1][n])]

\* `with self.file_lock` may enter
file_lock_ignored(holder) == TRUE
file_lock_acquirable(holder) == holder = None

\* sorted(hashes.items()) as {path, md5, size} records; None when empty
file_records_unhashed(hashes, files) ==
    IF DOMAIN hashes = {} THEN None
    ELSE LET order == SelectSeq(PathOrder, LAMBDA p : p \in DOMAIN hashes) IN
         Some([i \in 1..Len(order) |->
                  [path |-> order[i],
                   md5 |-> EmptyMd5,
                   size |-> compute_file_size(files, order[i])]])

\* the records by path descending
file_records_descending(hashes, files) ==
    IF DOMAIN hashes = {} THEN None
    ELSE LET order == SelectSeq(PathOrder, LAMBDA p : p \in DOMAIN hashes) IN
         Some([i \in 1..Len(order) |->
                  [path |-> order[Len(order) + 1 - i],
                   md5 |-> hashes[order[Len(order) + 1 - i]],
                   size |-> compute_file_size(files, order[Len(order) + 1 - i])]])

\* the list of {path, md5, size} records, sorted by path; None when empty
file_records(hashes, files) ==
    IF DOMAIN hashes = {} THEN None
    ELSE LET order == SelectSeq(PathOrder, LAMBDA p : p \in DOMAIN hashes) IN
         Some([i \in 1..Len(order) |->
                  [path |-> order[i],
                   md5 |-> hashes[order[i]],
                   size |-> compute_file_size(files, order[i])]])

build_stage_entry(cmd, deps_hashes, outs_hashes, files) ==
    [cmd |-> cmd,
     deps |-> file_records(deps_hashes, files),
     outs |-> file_records(outs_hashes, files)]

ensure_structure(lock) ==
    [schema |-> IF lock.schema = None THEN Some("2.0") ELSE lock.schema,
     stages |-> IF lock.stages = None THEN Some(EmptyMap) ELSE lock.stages]

install_entry_alone(lock, name, entry) ==
    [lock EXCEPT !.stages = Some(MapPut(EmptyMap, name, entry))]

\* lock['stages'][stage.name] = stage_entry
install_entry(lock, name, entry) ==
    [lock EXCEPT !.stages = Some(MapPut(lock.stages[1], name, entry))]

\* the canonical manifest as a reader that loads it whole sees it
canonical(d) == IF d[lock_path] = None THEN NoDoc ELSE visible(d[lock_path][1])

NoCall == [cmd |-> "", deps_hashes |-> EmptyMap, outs_hashes |-> EmptyMap,
           lock |-> NoDoc, entry |-> None, fd |-> 0]

\* with self.file_lock:
UpdAcquire(s) ==
    /\ pc[s] = "acquire"
    /\ file_lock_acquirable(file_lock)
    /\ file_lock' = Some(s)
    /\ pc' = [pc EXCEPT ![s] = "read"]
    /\ UNCHANGED <<fs, oracle_vars, disk, next_ino, upd, upd_calls, last_entry, reader_vars, exec_vars>>

\* read the current lock state, ensure the structure, build and install the entry
UpdRead(s) ==
    /\ pc[s] = "read"
    /\ LET entry == build_stage_entry(upd[s].cmd, upd[s].deps_hashes,
                                      upd[s].outs_hashes, fs)
           lock == install_entry(ensure_structure(canonical(disk)), s, entry)
       IN  upd' = [upd EXCEPT ![s].lock = lock, ![s].entry = Some(entry)]
    /\ pc' = [pc EXCEPT ![s] = "open_tmp"]
    /\ UNCHANGED <<fs, oracle_vars, disk, next_ino, file_lock, upd_calls, last_entry,
                   reader_vars, exec_vars>>

\* open(temp_path, 'w'): create the file, or truncate the one there
UpdOpenTmp(s) ==
    /\ pc[s] = "open_tmp"
    /\ LET ino == IF disk[temp_path] = None THEN next_ino ELSE disk[temp_path][1].ino IN
       /\ disk' = [disk EXCEPT ![temp_path] = Some(File(ino, upd[s].lock, "empty"))]
       /\ next_ino' = IF disk[temp_path] = None THEN next_ino + 1 ELSE next_ino
       /\ upd' = [upd EXCEPT ![s].fd = ino]
    /\ pc' = [pc EXCEPT ![s] = "write"]
    /\ UNCHANGED <<fs, oracle_vars, file_lock, upd_calls, last_entry, reader_vars, exec_vars>>

\* yaml.dump(lock, f): the text reaches the file piece by piece
UpdWrite(s) ==
    /\ pc[s] = "write"
    /\ LET now == inode_content(disk, upd[s].fd)
           step == IF now # None /\ now[1].written = "empty" THEN "partial" ELSE "full"
       IN  /\ disk' = [p \in DiskPaths |->
                         IF disk[p] # None /\ disk[p][1].ino = upd[s].fd
                         THEN Some(File(upd[s].fd, upd[s].lock, step))
                         ELSE disk[p]]
           /\ pc' = [pc EXCEPT ![s] = IF step = "full" THEN "rename" ELSE "write"]
    /\ UNCHANGED <<fs, oracle_vars, next_ino, file_lock, upd, upd_calls, last_entry,
                   reader_vars, exec_vars>>

\* temp_path.rename(self.lock_path)
UpdRename(s) ==
    /\ pc[s] = "rename"
    /\ disk[temp_path] # None
    /\ disk' = IF temp_path = lock_path THEN disk
               ELSE [disk EXCEPT ![lock_path] = disk[temp_path], ![temp_path] = None]
    /\ last_entry' = [last_entry EXCEPT ![s] = upd[s].entry]
    /\ pc' = [pc EXCEPT ![s] = "release"]
    /\ UNCHANGED <<fs, oracle_vars, next_ino, file_lock, upd, upd_calls, reader_vars, exec_vars>>

\* leaving `with self.file_lock`
UpdRelease(s) ==
    /\ pc[s] = "release"
    /\ file_lock' = IF file_lock = Some(s) THEN None ELSE file_lock
    /\ upd' = [upd EXCEPT ![s] = NoCall]
    /\ pc' = [pc EXCEPT ![s] = "updated"]
    /\ UNCHANGED <<fs, oracle_vars, disk, next_ino, upd_calls, last_entry, reader_vars, exec_vars>>

update_stage(s) ==
    \/ UpdAcquire(s)
    \/ UpdRead(s)
    \/ UpdOpenTmp(s)
    \/ UpdWrite(s)
    \/ UpdRename(s)
    \/ UpdRelease(s)

\* DVCLockParser.parse: if not self.lock_path.exists(): return {}
ParseExists ==
    /\ rd_pc = "idle"
    /\ rd_pc' = IF disk[lock_path] = None THEN "returned" ELSE "open"
    /\ UNCHANGED <<fs, oracle_vars, store_vars, pc, rd_fd, rd_seen, rd_at_open, exec_vars>>

\* with open(self.lock_path) as f
ParseOpen ==
    /\ rd_pc = "open"
    /\ disk[lock_path] # None
    /\ rd_fd' = Some([ino |-> disk[lock_path][1].ino, snap |-> disk[lock_path][1]])
    /\ rd_at_open' = disk[lock_path]
    /\ rd_pc' = "read"
    /\ UNCHANGED <<fs, oracle_vars, store_vars, pc, rd_seen, exec_vars>>

\* lock = yaml.safe_load(f): the file behind the descriptor as it is now (an
\* inode no path names any more is as it was when it was opened)
ParseRead ==
    /\ rd_pc = "read"
    /\ LET live == inode_content(disk, rd_fd[1].ino)
       IN  rd_seen' = IF live = None THEN Some(rd_fd[1].snap) ELSE live
    /\ rd_fd' = None
    /\ rd_pc' = "returned"
    /\ UNCHANGED <<fs, oracle_vars, store_vars, pc, rd_at_open, exec_vars>>

\* what parse returns: {} without a file, else the stages of what was loaded
parse_result(seen) == IF seen = None THEN EmptyMap ELSE parse_doc(visible(seen[1]))

\* the caller has the result; parse may be called again
ParseDone ==
    /\ rd_pc = "returned"
    /\ rd_pc' = "idle"
    /\ rd_seen' = None
    /\ rd_at_open' = None
    /\ UNCHANGED <<fs, oracle_vars, store_vars, pc, rd_fd, exec_vars>>

parse == ParseExists \/ ParseOpen \/ ParseRead \/ ParseDone

StoreIdle ==
    /\ disk = [p \in DiskPaths |-> None]
    /\ next_ino = 1
    /\ file_lock = None
    /\ pc = [s \in Names |-> "idle"]
    /\ upd = [s \in Names |-> NoCall]
    /\ upd_calls = [s \in Names |-> 0]
    /\ last_entry = [s \in Names |-> None]

ReaderIdle ==
    /\ rd_pc = "idle"
    /\ rd_fd = None
    /\ rd_seen = None
    /\ rd_at_open = None

\* no command line: the executor is driven through its API
NoCli == [pc |-> "none"]

\* no ParallelExecutor has been constructed
SchedulerIdle ==
    /\ stages = EmptyMap
    /\ levels = <<>>
    /\ lock_states = EmptyMap
    /\ cpc = "idle"
    /\ level = 0
    /\ level_results = <<>>
    /\ results = <<>>
    /\ ret = [s \in Names |-> None]
    /\ runner_calls = [s \in Names |-> 0]
    /\ run = 0
    /\ prev_run = None
    /\ runner_out = [s \in Names |-> None]
    /\ failed_stages = None
    /\ dvc_installed = TRUE
    /\ dry_run = FALSE
    /\ update_lock = TRUE

ExecIdle == SchedulerIdle /\ cli = NoCli

---------------------------------------------------------------------------
(* FreshSpec: the oracle functions on bounded inputs *)

OraclePaths == {"x.txt", "a.txt"}

RECURSIVE SeqsUpTo(_, _)
SeqsUpTo(S, n) ==
    IF n = 0 THEN {<<>>}
    ELSE LET shorter == SeqsUpTo(S, n - 1) IN
         shorter \cup {Append(q, x) : q \in shorter, x \in S}

\* recorded deps / outs: every subset of the paths, recorded with the digest
\* of content 1
RecordedMaps == {[p \in D |-> FileInfo(p, md5_of(1), 1)] : D \in SUBSET OraclePaths}

OracleStages ==
    {[name |-> "a", cmd |-> "cmd1", deps |-> d, outs |-> o] :
        d \in SeqsUpTo(OraclePaths, MaxLen), o \in SeqsUpTo(OraclePaths, MaxLen)}

\* lock.StageState, or None
OracleStates ==
    {None} \cup
    {Some([cmd |-> c, deps |-> d, outs |-> o]) :
        c \in {"cmd1", "cmd2"}, d \in RecordedMaps, o \in RecordedMaps}

OracleIdle ==
    /\ q_stage = [name |-> "a", cmd |-> "cmd1", deps |-> <<>>, outs |-> <<>>]
    /\ q_state = None
    /\ q_fresh = None
    /\ q_reason = None

FreshInit ==
    /\ fs \in [OraclePaths -> FileStates]
    /\ q_stage \in OracleStages
    /\ q_state \in OracleStates
    /\ q_fresh = None
    /\ q_reason = None
    /\ StoreIdle
    /\ ReaderIdle
    /\ ExecIdle

CallIsStageFresh ==
    /\ q_fresh = None
    /\ q_fresh' = Some(is_stage_fresh(q_stage, q_state, fs))
    /\ UNCHANGED <<fs, q_stage, q_state, q_reason, store_vars, pc, reader_vars, exec_vars>>

CallGetFreshnessReason ==
    /\ q_reason = None
    /\ q_reason' = Some(get_freshness_reason(q_stage, q_state, fs))
    /\ UNCHANGED <<fs, q_stage, q_state, q_fresh, store_vars, pc, reader_vars, exec_vars>>

FreshNext == CallIsStageFresh \/ CallGetFreshnessReason

FreshSpec == FreshInit /\ [][FreshNext]_vars

---------------------------------------------------------------------------
(* LockSpec: concurrent update_stage calls on distinct stages, from threads
   or sibling processes sharing the manifest, and a reader calling parse *)

OutOf(s) == CASE s = "a" -> "a.txt" [] s = "b" -> "b.txt" [] OTHER -> "c.txt"

\* a manifest entry as a previous run left it
entry_of(cmd, deps, outs) ==
    build_stage_entry(cmd, [p \in deps |-> md5_of(1)], [p \in outs |-> md5_of(1)],
                      [p \in Paths |-> RegularFile(1)])

\* manifests found on disk: an empty file, one of an older schema holding a
\* stage of another pipeline, one without a schema key
InitialDocs ==
    { NoDoc,
      [schema |-> Some("1.0"),
       stages |-> Some(MapPut(MapPut(EmptyMap, "z", entry_of("cmdz", {"x.txt"}, {})),
                              "a", entry_of("cmd0", {"x.txt"}, {"a.txt"})))],
      [schema |-> None,
       stages |-> Some(MapPut(EmptyMap, "b", entry_of("cmd1", {}, {"b.txt"})))] }

InitialManifests == {None} \cup {Some(File(1, d, "full")) : d \in InitialDocs}

\* the hashes a caller passes, as [deps, outs] of {path: md5}: nothing
\* hashed, two deps and the out hashed, or one dep and a changed out hashed
UpdateArgs(s) ==
    {[deps |-> EmptyMap, outs |-> EmptyMap],
     [deps |-> [p \in {"x.txt", "c.txt"} |-> md5_of(1)],
      outs |-> [p \in {OutOf(s)} |-> md5_of(1)]],
     [deps |-> [p \in {"x.txt"} |-> md5_of(1)], outs |-> [p \in {OutOf(s)} |-> md5_of(2)]]}

LockInit ==
    /\ fs = [p \in Paths |-> RegularFile(1)]
    /\ OracleIdle
    /\ disk \in {[p \in DiskPaths |-> IF p = lock_path THEN m ELSE None] :
                    m \in InitialManifests}
    /\ next_ino = 2
    /\ file_lock = None
    /\ pc = [s \in Names |-> "idle"]
    /\ upd = [s \in Names |-> NoCall]
    /\ upd_calls = [s \in Names |-> 0]
    /\ last_entry = [s \in Names |-> None]
    /\ ReaderIdle
    /\ ExecIdle

\* a worker calls lock_writer.update_stage(stage, deps_hashes, outs_hashes)
CallUpdate(s) ==
    /\ pc[s] \in {"idle", "updated"}
    /\ upd_calls[s] < MaxUpdates
    /\ \E args \in UpdateArgs(s) :
           upd' = [upd EXCEPT ![s] = [NoCall EXCEPT !.cmd = "cmd1",
                                                    !.deps_hashes = args.deps,
                                                    !.outs_hashes = args.outs]]
    /\ upd_calls' = [upd_calls EXCEPT ![s] = @ + 1]
    /\ pc' = [pc EXCEPT ![s] = "acquire"]
    /\ UNCHANGED <<fs, oracle_vars, disk, next_ino, file_lock, last_entry, reader_vars, exec_vars>>

\* the stages whose workers call update_stage
Writers == {"a", "b"}

\* open(temp_path, 'w') or yaml.dump raises (no space, no permission): the
\* exception leaves both with blocks, which releases the sidecar lock, and
\* update_stage; the rename is not reached and the temp file stays as it is
UpdWriteFails(s) ==
    /\ pc[s] \in {"open_tmp", "write"}
    /\ file_lock' = IF file_lock = Some(s) THEN None ELSE file_lock
    /\ upd' = [upd EXCEPT ![s] = NoCall]
    /\ pc' = [pc EXCEPT ![s] = "raised"]
    /\ UNCHANGED <<fs, oracle_vars, disk, next_ino, upd_calls, last_entry, reader_vars,
                   exec_vars>>

\* another process working in the same directory
OtherProcess == "another process"

\* the other process takes the sidecar lock, and keeps it as long as it likes
OtherAcquire ==
    /\ file_lock_acquirable(file_lock)
    /\ file_lock' = Some(OtherProcess)
    /\ UNCHANGED <<fs, oracle_vars, disk, next_ino, upd, upd_calls, last_entry, pc,
                   reader_vars, exec_vars>>

OtherRelease ==
    /\ file_lock = Some(OtherProcess)
    /\ file_lock' = None
    /\ UNCHANGED <<fs, oracle_vars, disk, next_ino, upd, upd_calls, last_entry, pc,
                   reader_vars, exec_vars>>

LockNext ==
    \/ \E s \in Writers : CallUpdate(s)
    \/ \E s \in Writers : update_stage(s)
    \/ \E s \in Writers : UpdWriteFails(s)
    \/ OtherAcquire
    \/ OtherRelease
    \/ parse

LockSpec == LockInit /\ [][LockNext]_vars

---------------------------------------------------------------------------
(* dag.py: the stage graph and its levels *)

\* stage names in the order sorted() gives them
NameOrder == <<"a", "b", "c">>

Range(q) == {q[i] : i \in 1..Len(q)}

\* DAG.get_dependencies: the stages that produce a dep of stage s
get_dependencies(st, s) ==
    {u \in DOMAIN st : Range(st[u].outs) \cap Range(st[s].deps) # {}}

\* every stage placed in the first level, whatever it depends on
depth_flat(st, s) == 0

\* the length of the longest path from a root to s
RECURSIVE depth(_, _)
depth(st, s) ==
    LET ds == {depth(st, u) : u \in get_dependencies(st, s)} IN
    IF ds = {} THEN 0 ELSE 1 + (CHOOSE m \in ds : \A d \in ds : d <= m)

\* DAG.topological_sort: level k holds the stages of depth k - 1, by name
topological_sort(st) ==
    LET depths == {depth(st, s) : s \in DOMAIN st}
        n == IF depths = {} THEN 0 ELSE 1 + (CHOOSE m \in depths : \A d \in depths : d <= m)
    IN  [k \in 1..n |-> SelectSeq(NameOrder, LAMBDA s : s \in DOMAIN st /\ depth(st, s) = k - 1)]

---------------------------------------------------------------------------
(* executor.py: ParallelExecutor *)

\* executor.ExecutionResult
ExecutionResult(n, success, skipped, message) ==
    [stage_name |-> n, success |-> success, skipped |-> skipped, message |-> message]

\* a pool with a thread for every stage
max_workers_per_stage == Cardinality(Names)

\* ThreadPoolExecutor(max_workers=self.max_workers)
max_workers == MaxWorkers

\* the stages whose _execute_stage is running
running == {s \in Names : pc[s] \notin {"idle", "queued", "done"}}

\* the stages the as_completed loop has handled
collected == {level_results[i].stage_name : i \in 1..Len(level_results)}

as_completed_first(stage_names) == collected # {}

as_completed_until_failure(stage_names) ==
    \/ Range(stage_names) \subseteq collected
    \/ \E i \in 1..Len(level_results) : ~level_results[i].success

\* for future in as_completed(futures) has ended
as_completed_exhausted(stage_names) == Range(stage_names) \subseteq collected

failures_none(rs) == <<>>

\* only the first failed result
failures_first(rs) ==
    LET failed == SelectSeq(rs, LAMBDA r : ~r.success /\ ~r.skipped) IN
    IF failed = <<>> THEN <<>> ELSE <<failed[1]>>

\* failures = [r for r in level_results if not r.success and not r.skipped]
failures(rs) == SelectSeq(rs, LAMBDA r : ~r.success /\ ~r.skipped)

\* ", ".join(r.stage_name for r in failures)
stage_names(rs) == [i \in 1..Len(rs) |-> rs[i].stage_name]

\* except (FileNotFoundError, ValueError) around compute_md5
ExecCaughtHashErrors == {"FileNotFoundError", "ValueError"}

\* the hashing loops of _execute_stage: {path: md5} of the paths that hash
RECURSIVE hash_paths(_, _, _, _)
hash_paths(paths, files, i, acc) ==
    IF i > Len(paths) THEN Ret(acc)
    ELSE LET h == compute_md5(files, paths[i]) IN
         IF h.exc = "" THEN hash_paths(paths, files, i + 1, MapPut(acc, paths[i], h.val))
         ELSE IF h.exc \in ExecCaughtHashErrors THEN hash_paths(paths, files, i + 1, acc)
         ELSE Raise(h.exc, acc)

\* the stage's thread ends _execute_stage with outcome r
EndStage(s, r) ==
    /\ ret' = [ret EXCEPT ![s] = Some(r)]
    /\ pc' = [pc EXCEPT ![s] = "done"]

\* execute: the loop is over
ExecuteReturn ==
    /\ cpc = "level"
    /\ ~dry_run
    /\ level > Len(levels)
    /\ cpc' = "returned"
    /\ UNCHANGED <<fs, oracle_vars, store_vars, pc, reader_vars, stages, levels, lock_states,
                   level, level_results, results, ret, runner_calls, run,
                   prev_run, runner_out, failed_stages, dvc_installed, cli, dry_run, update_lock>>

\* execute in dry-run mode: the plan is logged and [] is returned
DryRunReturn ==
    /\ cpc = "level"
    /\ dry_run
    /\ level = 1
    /\ results = <<>>
    /\ cpc' = "returned"
    /\ UNCHANGED <<fs, oracle_vars, store_vars, pc, reader_vars, stages, levels, lock_states,
                   level, level_results, results, ret, runner_calls, run,
                   prev_run, runner_out, failed_stages, dvc_installed, cli, dry_run, update_lock>>

\* _execute_level with one stage: run it on the calling thread
RunInline ==
    /\ cpc = "level"
    /\ ~dry_run
    /\ level <= Len(levels)
    /\ Len(levels[level]) = 1
    /\ pc' = [pc EXCEPT ![levels[level][1]] = "start"]
    /\ cpc' = "inline"
    /\ UNCHANGED <<fs, oracle_vars, store_vars, reader_vars, stages, levels, lock_states,
                   level, level_results, results, ret, runner_calls, run,
                   prev_run, runner_out, failed_stages, dvc_installed, cli, dry_run, update_lock>>

\* _execute_level with several stages: submit each to the pool
SubmitLevel ==
    /\ cpc = "level"
    /\ ~dry_run
    /\ level <= Len(levels)
    /\ Len(levels[level]) # 1
    /\ pc' = [s \in Names |-> IF s \in Range(levels[level]) THEN "queued" ELSE pc[s]]
    /\ cpc' = "pool"
    /\ UNCHANGED <<fs, oracle_vars, store_vars, reader_vars, stages, levels, lock_states,
                   level, level_results, results, ret, runner_calls, run,
                   prev_run, runner_out, failed_stages, dvc_installed, cli, dry_run, update_lock>>

\* a pool thread takes a submitted stage
WorkerStart(s) ==
    /\ pc[s] = "queued"
    /\ Cardinality(running) < max_workers
    /\ pc' = [pc EXCEPT ![s] = "start"]
    /\ UNCHANGED <<fs, oracle_vars, store_vars, reader_vars, exec_vars>>

\* _execute_stage: if is_stage_fresh(stage, lock_state)
CheckFresh(s) ==
    /\ pc[s] = "start"
    /\ LET r == is_stage_fresh(stages[s], DictGet(lock_states, s), fs) IN
       IF r.exc # "" THEN EndStage(s, Raise(r.exc, ExecutionResult(s, FALSE, FALSE, <<r.exc>>)))
       ELSE /\ pc' = [pc EXCEPT ![s] = IF r.val THEN "reason" ELSE "run"]
            /\ UNCHANGED ret
    /\ UNCHANGED <<fs, oracle_vars, store_vars, reader_vars, stages, levels, lock_states, cpc,
                   level, level_results, results, runner_calls, run,
                   prev_run, runner_out, failed_stages, dvc_installed, cli, dry_run, update_lock>>

\* _execute_stage: reason = get_freshness_reason(...); return the skipped result
SkipStage(s) ==
    /\ pc[s] = "reason"
    /\ LET r == get_freshness_reason(stages[s], DictGet(lock_states, s), fs) IN
       IF r.exc # "" THEN EndStage(s, Raise(r.exc, ExecutionResult(s, FALSE, FALSE, <<r.exc>>)))
       ELSE EndStage(s, Ret(ExecutionResult(s, TRUE, TRUE, r.val)))
    /\ UNCHANGED <<fs, oracle_vars, store_vars, reader_vars, stages, levels, lock_states, cpc,
                   level, level_results, results, runner_calls, run,
                   prev_run, runner_out, failed_stages, dvc_installed, cli, dry_run, update_lock>>

\* what a command does to a declared out: leaves it as it is, or writes it
\* with the content an earlier run recorded or with another content
OutWrites == {None, Some(1), Some(2)}

\* self.dvc.run_stage succeeds: the command has written none, some or all of
\* the stage's declared outs
RunStageOk(s) ==
    /\ pc[s] = "run"
    /\ dvc_installed
    /\ \E w \in [Range(stages[s].outs) -> OutWrites] :
           fs' = [p \in DOMAIN fs |->
                    IF p \in DOMAIN w /\ w[p] # None THEN RegularFile(w[p][1]) ELSE fs[p]]
    /\ runner_calls' = [runner_calls EXCEPT ![s] = @ + 1]
    /\ runner_out' = [runner_out EXCEPT ![s] = Some("returned")]
    /\ pc' = [pc EXCEPT ![s] = "hash"]
    /\ UNCHANGED <<oracle_vars, store_vars, reader_vars, stages, levels, lock_states, cpc,
                   level, level_results, results, ret, run, prev_run, failed_stages,
                   dvc_installed, cli, dry_run, update_lock>>

\* the exceptions _execute_stage turns into a failed result
StageCaught_none == {}

\* except RuntimeError as e
StageCaught == {"RuntimeError"}

\* DVCClient.run_stage raises: CalledProcessError and FileNotFoundError both
\* become a RuntimeError with their own message
run_stage_error(s, out) ==
    IF out = "failed" THEN Raise("RuntimeError", <<"Stage failed", s>>)
    ELSE Raise("RuntimeError", <<"dvc command not found">>)

\* self.dvc.run_stage raised e: the except clause of _execute_stage returns
\* the failed result, any other exception leaves _execute_stage
RunStageRaised(s, out) ==
    LET e == run_stage_error(s, out) IN
    /\ runner_calls' = [runner_calls EXCEPT ![s] = @ + 1]
    /\ runner_out' = [runner_out EXCEPT ![s] = Some(out)]
    /\ IF e.exc \in StageCaught
       THEN EndStage(s, Ret(ExecutionResult(s, FALSE, FALSE, e.val)))
       ELSE EndStage(s, Raise(e.exc, ExecutionResult(s, FALSE, FALSE, e.val)))
    /\ UNCHANGED <<fs, oracle_vars, store_vars, reader_vars, stages, levels, lock_states, cpc,
                   level, level_results, results, run, prev_run, failed_stages,
                   dvc_installed, cli, dry_run, update_lock>>

\* dvc repro exits non-zero: CalledProcessError
RunStageFail(s) ==
    /\ pc[s] = "run"
    /\ dvc_installed
    /\ RunStageRaised(s, "failed")

\* there is no dvc executable: FileNotFoundError from subprocess.run
RunStageUnavailable(s) ==
    /\ pc[s] = "run"
    /\ ~dvc_installed
    /\ RunStageRaised(s, "unavailable")

\* a writer that is built whenever the run is not a dry run
lock_writer_unless_dry == ~dry_run

\* self.lock_writer is a DVCLockWriter (and not None)
lock_writer == update_lock /\ ~dry_run

\* _execute_stage: hash the deps and outs, then call lock_writer.update_stage
HashFiles(s) ==
    /\ pc[s] = "hash"
    /\ lock_writer
    /\ LET d == hash_paths(stages[s].deps, fs, 1, EmptyMap)
           o == hash_paths(stages[s].outs, fs, 1, EmptyMap)
       IN  IF d.exc # "" \/ o.exc # ""
           THEN /\ EndStage(s, Raise(IF d.exc # "" THEN d.exc ELSE o.exc,
                                     ExecutionResult(s, FALSE, FALSE, <<"OSError">>)))
                /\ UNCHANGED <<upd, upd_calls>>
           ELSE /\ upd' = [upd EXCEPT ![s] = [NoCall EXCEPT !.cmd = stages[s].cmd,
                                                          !.deps_hashes = d.val,
                                                          !.outs_hashes = o.val]]
                /\ upd_calls' = [upd_calls EXCEPT ![s] = @ + 1]
                /\ pc' = [pc EXCEPT ![s] = "acquire"]
                /\ UNCHANGED ret
    /\ UNCHANGED <<fs, oracle_vars, disk, next_ino, file_lock, last_entry, reader_vars,
                   stages, levels, lock_states, cpc, level, level_results, results,
                   runner_calls, run, prev_run, runner_out, failed_stages, dvc_installed, cli, dry_run, update_lock>>

\* the snapshot parsed again from the manifest as the stage left it
lock_states_refreshed(s) == parse_doc(canonical(disk))

\* self.lock_states once a stage has completed: no statement of
\* _execute_stage assigns it or changes the dict, it is as it was
lock_states_after(s) == lock_states

\* _execute_stage: update_stage has returned; return the 'completed' result
StageCompleted(s) ==
    /\ pc[s] = "updated"
    /\ EndStage(s, Ret(ExecutionResult(s, TRUE, FALSE, <<"completed">>)))
    /\ lock_states' = lock_states_after(s)
    /\ UNCHANGED <<fs, oracle_vars, store_vars, reader_vars, stages, levels, cpc,
                   level, level_results, results, runner_calls, run,
                   prev_run, runner_out, failed_stages, dvc_installed, cli, dry_run, update_lock>>

\* _execute_stage without a lock writer: 'if self.lock_writer' is false,
\* return the 'completed' result
CompletedUnrecorded(s) ==
    /\ pc[s] = "hash"
    /\ ~lock_writer
    /\ EndStage(s, Ret(ExecutionResult(s, TRUE, FALSE, <<"completed">>)))
    /\ UNCHANGED <<fs, oracle_vars, store_vars, reader_vars, stages, levels, lock_states, cpc,
                   level, level_results, results, runner_calls, run,
                   prev_run, runner_out, failed_stages, dvc_installed, cli, dry_run, update_lock>>

execute_stage(s) ==
    \/ CheckFresh(s)
    \/ SkipStage(s)
    \/ RunStageOk(s)
    \/ RunStageFail(s)
    \/ RunStageUnavailable(s)
    \/ HashFiles(s)
    \/ update_stage(s)
    \/ StageCompleted(s)

\* _execute_level with one stage: return [self._execute_stage(...)], or let
\* its exception leave execute
InlineReturn ==
    /\ cpc = "inline"
    /\ LET s == levels[level][1] IN
       /\ pc[s] = "done"
       /\ IF ret[s][1].exc # ""
          THEN cpc' = "crashed" /\ UNCHANGED level_results
          ELSE cpc' = "check" /\ level_results' = <<ret[s][1].val>>
    /\ UNCHANGED <<fs, oracle_vars, store_vars, pc, reader_vars, stages, levels, lock_states,
                   level, results, ret, runner_calls, run,
                   prev_run, runner_out, failed_stages, dvc_installed, cli, dry_run, update_lock>>

\* the as_completed loop takes a finished future: its result, or a failed
\* result made from its exception
Collect(s) ==
    /\ cpc = "pool"
    /\ s \in Range(levels[level])
    /\ pc[s] = "done"
    /\ s \notin collected
    /\ ~as_completed_exhausted(levels[level])
    /\ level_results' = Append(level_results, ret[s][1].val)
    /\ UNCHANGED <<fs, oracle_vars, store_vars, pc, reader_vars, stages, levels, lock_states,
                   cpc, level, results, ret, runner_calls, run,
                   prev_run, runner_out, failed_stages, dvc_installed, cli, dry_run, update_lock>>

\* the loop is over and the pool is shut down; _execute_level returns
PoolReturn ==
    /\ cpc = "pool"
    /\ as_completed_exhausted(levels[level])
    /\ cpc' = "check"
    /\ UNCHANGED <<fs, oracle_vars, store_vars, pc, reader_vars, stages, levels, lock_states,
                   level, level_results, results, ret, runner_calls, run,
                   prev_run, runner_out, failed_stages, dvc_installed, cli, dry_run, update_lock>>

\* execute: results.extend(level_results), then raise if any stage failed
CheckFailures ==
    /\ cpc = "check"
    /\ results' = results \o level_results
    /\ IF failures(level_results) # <<>>
       THEN /\ cpc' = "failed"
            /\ failed_stages' = Some(stage_names(failures(level_results)))
            /\ UNCHANGED <<level, level_results>>
       ELSE /\ cpc' = "level" /\ level' = level + 1 /\ level_results' = <<>>
            /\ UNCHANGED failed_stages
    /\ UNCHANGED <<fs, oracle_vars, store_vars, pc, reader_vars, stages, levels, lock_states,
                   ret, runner_calls, run, prev_run, runner_out, dvc_installed, cli, dry_run, update_lock>>

execute ==
    \/ ExecuteReturn
    \/ RunInline
    \/ SubmitLevel
    \/ \E s \in Names : WorkerStart(s)
    \/ \E s \in Names : execute_stage(s)
    \/ InlineReturn
    \/ \E s \in Names : Collect(s)
    \/ PoolReturn
    \/ CheckFailures

\* the stages a run executed: results with success and not skipped
executed(rs) == {rs[i].stage_name : i \in {j \in 1..Len(rs) : rs[j].success /\ ~rs[j].skipped}}

\* the paths recorded in a manifest entry's deps / outs list
recorded_paths(records) ==
    IF records = None THEN {} ELSE {records[1][i].path : i \in 1..Len(records[1])}

\* the executed stages for which the hash of a declared path was left out
omitted(rs) ==
    {s \in executed(rs) :
        \/ last_entry[s] = None
        \/ ~(Range(stages[s].deps) \subseteq recorded_paths(last_entry[s][1].deps))
        \/ ~(Range(stages[s].outs) \subseteq recorded_paths(last_entry[s][1].outs))}

\* the state ParallelExecutor.__init__ and the start of execute leave
Construct ==
    /\ lock_states = parse_doc(canonical(disk))
    /\ levels = topological_sort(stages)
    /\ cpc = "level"
    /\ level = 1
    /\ level_results = <<>>
    /\ results = <<>>
    /\ ret = [s \in Names |-> None]
    /\ runner_calls = [s \in Names |-> 0]
    /\ runner_out = [s \in Names |-> None]
    /\ failed_stages = None
    /\ pc = [s \in Names |-> "idle"]
    /\ upd = [s \in Names |-> NoCall]
    /\ upd_calls = [s \in Names |-> 0]
    /\ file_lock = None

\* the pipeline is run again after a run that succeeded, no file changed
RunAgain ==
    /\ cpc = "returned"
    /\ run < MaxRuns
    /\ run' = run + 1
    /\ prev_run' = Some([executed |-> executed(results), omitted |-> omitted(results)])
    /\ lock_states' = parse_doc(canonical(disk))
    /\ levels' = topological_sort(stages)
    /\ cpc' = "level"
    /\ level' = 1
    /\ level_results' = <<>>
    /\ results' = <<>>
    /\ ret' = [s \in Names |-> None]
    /\ runner_calls' = [s \in Names |-> 0]
    /\ runner_out' = [s \in Names |-> None]
    /\ failed_stages' = None
    /\ pc' = [s \in Names |-> "idle"]
    /\ upd' = [s \in Names |-> NoCall]
    /\ upd_calls' = [s \in Names |-> 0]
    /\ file_lock' = None
    /\ UNCHANGED <<fs, oracle_vars, disk, next_ino, last_entry, reader_vars, stages,
                   dvc_installed, cli, dry_run, update_lock>>

---------------------------------------------------------------------------
(* Spec: runs of the scheduler *)

Cmd(s) == <<"cmd", s>>

\* pipelines: each stage writes its own file; a reads the external x.txt
Pipeline(deps_b, deps_c) ==
    [s \in Names |->
        [name |-> s, cmd |-> Cmd(s),
         deps |-> CASE s = "a" -> <<"x.txt">> [] s = "b" -> deps_b [] OTHER -> deps_c,
         outs |-> <<OutOf(s)>>]]

Pipelines ==
    { Pipeline(<<>>, <<"a.txt", "b.txt">>),
      Pipeline(<<"a.txt">>, <<"b.txt">>),
      Pipeline(<<>>, <<>>) }

\* the manifest an earlier run left: entries for the stages in R, recorded
\* when every file had content 1
ManifestOf(st, R) ==
    [schema |-> Some("2.0"),
     stages |-> Some([s \in R |-> entry_of(st[s].cmd, Range(st[s].deps), Range(st[s].outs))])]

\* the stages an earlier run recorded: only a, or all
RecordedStages == {{"a"}, Names}

\* the manifest file a run finds: none, one with no stages section, or the
\* one an earlier run left
StartManifests(st) ==
    {None, Some(File(1, [schema |-> Some("2.0"), stages |-> None], "full"))} \cup
    {Some(File(1, ManifestOf(st, R), "full")) : R \in RecordedStages}

\* the pipeline, the files and the manifest a run starts from
Start ==
    /\ OracleIdle
    /\ ReaderIdle
    /\ stages \in Pipelines
    /\ \E outs \in {Missing, RegularFile(1)} :
       \E x \in {Missing, RegularFile(1), UnreadableFile} :
           fs = [p \in Paths |-> IF p = "x.txt" THEN x ELSE outs]
    /\ \E m \in StartManifests(stages) :
           disk = [p \in DiskPaths |-> IF p = lock_path THEN m ELSE None]
    /\ next_ino = 2
    /\ last_entry = [s \in Names |-> None]
    /\ run = 1
    /\ prev_run = None
    /\ dvc_installed \in BOOLEAN
    /\ cli = NoCli
    /\ Construct

\* the executor is built with the defaults: update_lock=True, dry_run=False
Init ==
    /\ dry_run = FALSE
    /\ update_lock = TRUE
    /\ Start

Next == execute \/ RunAgain

Spec == Init /\ [][Next]_vars

---------------------------------------------------------------------------
(* RaceSpec: runs of the scheduler while another process works on the files *)

\* another process rewrites the external input x.txt with a new content, at
\* any moment of a run
OtherWritesFile ==
    /\ fs["x.txt"] = RegularFile(1)
    /\ fs' = [fs EXCEPT !["x.txt"] = RegularFile(2)]
    /\ UNCHANGED <<oracle_vars, store_vars, pc, reader_vars, exec_vars>>

RaceNext == Next \/ OtherWritesFile

RaceSpec == Init /\ [][RaceNext]_vars

---------------------------------------------------------------------------
(* OptSpec: runs of executors built with any dry_run and update_lock *)

OptInit ==
    /\ dry_run \in BOOLEAN
    /\ update_lock \in BOOLEAN
    /\ Start

OptNext == Next \/ DryRunReturn \/ \E s \in Names : CompletedUnrecorded(s)

OptSpec == OptInit /\ [][OptNext]_vars

---------------------------------------------------------------------------
(* parser.py and cli.py: the command line *)

\* a dvc.yaml holding the stages of pipeline st, those in nocmd without cmd
YamlOf(st, nocmd) ==
    [exists |-> TRUE,
     data |-> Some([stages |-> Some([s \in DOMAIN st |->
                      [cmd |-> IF s \in nocmd THEN None ELSE Some(st[s].cmd),
                       deps |-> st[s].deps, outs |-> st[s].outs]])])]

\* a.deps = [b.txt], b.deps = [a.txt]
CyclicStages ==
    [s \in Names |->
        [name |-> s, cmd |-> Cmd(s),
         deps |-> CASE s = "a" -> <<"b.txt">> [] s = "b" -> <<"a.txt">> [] OTHER -> <<>>,
         outs |-> <<OutOf(s)>>]]

\* DVCYamlParser._parse_stage
yaml_parse_stage(name, config) ==
    IF config.cmd = None THEN Raise("ValueError", <<"missing required 'cmd' field", name>>)
    ELSE Ret([name |-> name, cmd |-> config.cmd[1], deps |-> config.deps, outs |-> config.outs])

\* DVCYamlParser.parse
yaml_parse(yaml) ==
    IF ~yaml.exists THEN Raise("FileNotFoundError", <<"dvc.yaml not found">>)
    ELSE IF yaml.data = None \/ yaml.data[1].stages = None
    THEN Raise("ValueError", <<"dvc.yaml must contain 'stages' section">>)
    ELSE LET cfg == yaml.data[1].stages[1]
             bad == {s \in DOMAIN cfg : yaml_parse_stage(s, cfg[s]).exc # ""}
         IN  IF bad # {}
             THEN yaml_parse_stage(CHOOSE s \in bad : TRUE, cfg[CHOOSE s \in bad : TRUE])
             ELSE Ret([s \in DOMAIN cfg |-> yaml_parse_stage(s, cfg[s]).val])

\* the stages S depends on, directly or not, and S itself
RECURSIVE ancestors(_, _)
ancestors(st, S) ==
    LET N == S \cup UNION {get_dependencies(st, s) : s \in S} IN
    IF N = S THEN S ELSE ancestors(st, N)

\* DAG.filter_to_targets
filter_to_targets(st, targets) ==
    IF ~(targets \subseteq DOMAIN st) THEN Raise("ValueError", <<"Unknown stage">>)
    ELSE Ret([s \in ancestors(st, targets) |-> st[s]])

\* DAG.check_cycles: None, or Some(a closed path of stage names)
check_cycles(st) ==
    LET paths == UNION {[1..n -> DOMAIN st] : n \in 2..(Cardinality(DOMAIN st) + 1)}
        cyc == {q \in paths : /\ q[1] = q[Len(q)]
                              /\ \A i \in 1..(Len(q) - 1) :
                                    q[i + 1] \in get_dependencies(st, q[i])}
    IN  IF cyc = {} THEN None ELSE Some(CHOOSE q \in cyc : TRUE)

\* the keyword parameters of ParallelExecutor.__init__
ExecutorParams ==
    {"dag", "max_workers", "dry_run", "output", "lock_path", "use_lock", "update_lock"}

\* the keywords main passes to ParallelExecutor
MainKwargs == {"dag", "max_workers", "dry_run", "output", "force"}

\* the exceptions main catches and turns into exit code 1
MainCaught == {"FileNotFoundError", "ValueError", "RuntimeError"}

\* main ends: sys.exit(code), return, or an exception e that leaves main
CliExit(code, e) ==
    cli' = [cli EXCEPT !.pc = "exit", !.exit_code = Some(code), !.error = e]

\* an exception raised inside main's try block: caught ones print the error
\* and exit 1, the others end the interpreter with a traceback and status 1
CliRaise(e) == CliExit(1, IF e \in MainCaught THEN "" ELSE e)

\* click converts the options: -f must name an existing path
CliOptions ==
    /\ cli.pc = "options"
    /\ IF ~cli.yaml.exists THEN CliExit(2, "")
       ELSE cli' = [cli EXCEPT !.pc = "parse"]
    /\ UNCHANGED <<fs, oracle_vars, store_vars, pc, reader_vars, stages, levels, lock_states,
                   cpc, level, level_results, results, ret, runner_calls, run, prev_run,
                   runner_out, failed_stages, dvc_installed, dry_run, update_lock>>

\* all_stages = parser.parse(); dag = DAG(all_stages)
CliParse ==
    /\ cli.pc = "parse"
    /\ LET r == yaml_parse(cli.yaml) IN
       IF r.exc # "" THEN CliRaise(r.exc)
       ELSE IF DOMAIN r.val = {} THEN CliExit(1, "")
       ELSE cli' = [cli EXCEPT !.pc = "filter", !.dag = r.val]
    /\ UNCHANGED <<fs, oracle_vars, store_vars, pc, reader_vars, stages, levels, lock_states,
                   cpc, level, level_results, results, ret, runner_calls, run, prev_run,
                   runner_out, failed_stages, dvc_installed, dry_run, update_lock>>

\* if stages: dag = dag.filter_to_targets(list(stages))
CliFilter ==
    /\ cli.pc = "filter"
    /\ IF cli.targets = {} THEN cli' = [cli EXCEPT !.pc = "cycles"]
       ELSE LET r == filter_to_targets(cli.dag, cli.targets) IN
            IF r.exc # "" THEN CliExit(1, "")
            ELSE cli' = [cli EXCEPT !.pc = "cycles", !.dag = r.val]
    /\ UNCHANGED <<fs, oracle_vars, store_vars, pc, reader_vars, stages, levels, lock_states,
                   cpc, level, level_results, results, ret, runner_calls, run, prev_run,
                   runner_out, failed_stages, dvc_installed, dry_run, update_lock>>

\* cycle = dag.check_cycles()
CliCheckCycles ==
    /\ cli.pc = "cycles"
    /\ IF check_cycles(cli.dag) # None THEN CliExit(1, "")
       ELSE cli' = [cli EXCEPT !.pc = "export"]
    /\ UNCHANGED <<fs, oracle_vars, store_vars, pc, reader_vars, stages, levels, lock_states,
                   cpc, level, level_results, results, ret, runner_calls, run, prev_run,
                   runner_out, failed_stages, dvc_installed, dry_run, update_lock>>

\* the visualization exports: after any export main returns; to_svg raises
\* RuntimeError when graphviz is not there
CliExport ==
    /\ cli.pc = "export"
    /\ \/ cli.export = "none" /\ cli' = [cli EXCEPT !.pc = "validate"]
       \/ cli.export # "none" /\ CliExit(0, "")
       \/ cli.export = "svg" /\ CliExit(1, "")
    /\ UNCHANGED <<fs, oracle_vars, store_vars, pc, reader_vars, stages, levels, lock_states,
                   cpc, level, level_results, results, ret, runner_calls, run, prev_run,
                   runner_out, failed_stages, dvc_installed, dry_run, update_lock>>

\* validation mode: back up dvc.lock, or drop the mode when there is none
CliValidate ==
    /\ cli.pc = "validate"
    /\ cli' = [cli EXCEPT !.pc = "construct",
                          !.validate = cli.validate /\ disk[lock_path] # None,
                          !.backup = IF cli.validate THEN disk[lock_path] ELSE None]
    /\ UNCHANGED <<fs, oracle_vars, store_vars, pc, reader_vars, stages, levels, lock_states,
                   cpc, level, level_results, results, ret, runner_calls, run, prev_run,
                   runner_out, failed_stages, dvc_installed, dry_run, update_lock>>

\* executor = ParallelExecutor(dag=..., max_workers=..., dry_run=...,
\* output=..., force=validate): a keyword __init__ does not have is a TypeError
CliConstruct ==
    /\ cli.pc = "construct"
    /\ IF MainKwargs \subseteq ExecutorParams
       THEN cli' = [cli EXCEPT !.pc = "execute"]
       ELSE CliRaise("TypeError")
    /\ UNCHANGED <<fs, oracle_vars, store_vars, pc, reader_vars, stages, levels, lock_states,
                   cpc, level, level_results, results, ret, runner_calls, run, prev_run,
                   runner_out, failed_stages, dvc_installed, dry_run, update_lock>>

main ==
    \/ CliOptions
    \/ CliParse
    \/ CliFilter
    \/ CliCheckCycles
    \/ CliExport
    \/ CliValidate
    \/ CliConstruct

---------------------------------------------------------------------------
(* CliSpec: invocations of the command line *)

\* the pipeline files: none, an empty one, one without a stages key, one with
\* no stage, pipelines with a stage lacking cmd, valid pipelines, a cyclic one
YamlFiles ==
    { [exists |-> FALSE, data |-> None],
      [exists |-> TRUE, data |-> None],
      [exists |-> TRUE, data |-> Some([stages |-> None])],
      YamlOf(EmptyMap, {}) } \cup
    { YamlOf(st, {"b"}) : st \in Pipelines } \cup
    { YamlOf(st, {}) : st \in Pipelines \cup {CyclicStages} }

\* positional stage names: none, a stage of the pipeline, a name no stage has
TargetSets == {{}, {"c"}, {"a", "zz"}}

CliInit ==
    /\ OracleIdle
    /\ ReaderIdle
    /\ SchedulerIdle
    /\ fs = [p \in Paths |-> Missing]
    /\ disk \in {[p \in DiskPaths |-> IF p = lock_path THEN m ELSE None] :
                    m \in InitialManifests}
    /\ next_ino = 2
    /\ file_lock = None
    /\ pc = [s \in Names |-> "idle"]
    /\ upd = [s \in Names |-> NoCall]
    /\ upd_calls = [s \in Names |-> 0]
    /\ last_entry = [s \in Names |-> None]
    /\ \E y \in YamlFiles, ts \in TargetSets, d \in BOOLEAN, v \in BOOLEAN,
          x \in {"none", "dot", "svg"} :
           cli = [pc |-> "options", yaml |-> y, targets |-> ts, dry_run |-> d,
                  validate |-> v, export |-> x, dag |-> EmptyMap, backup |-> None,
                  exit_code |-> None, error |-> ""]

CliNext == main

CliSpec == CliInit /\ [][CliNext]_vars

---------------------------------------------------------------------------
(* Claims about the manifest store (checked under LockSpec) *)

\* the stages mapping of a document, empty when it has none
C4_StagesOf(doc) == IF doc.stages = None THEN EmptyMap ELSE doc.stages[1]

\* C4: for any interleaving of update_stage calls on distinct stages, the
\* manifest holds the last-written entry of every stage that has written: no
\* update overwrites or drops another stage's entry.
C4_NoLostUpdates ==
    \A s \in Names :
        last_entry[s] # None =>
            /\ s \in DOMAIN C4_StagesOf(canonical(disk))
            /\ C4_StagesOf(canonical(disk))[s] = last_entry[s][1]

\* a has just renamed its second update over the manifest while b, which has
\* written before, waits for the sidecar lock with its next update
C4_Witness ==
    /\ pc["a"] = "release"
    /\ upd_calls["a"] = 2
    /\ pc["b"] = "acquire"
    /\ last_entry["b"] # None
    /\ last_entry["a"] # last_entry["b"]

\* C5: the canonical path never holds a partially written file, and what a
\* parse loads is the complete manifest the canonical path held when parse
\* opened it: the manifest before or after an update, never a torn one.
C5_NoTornRead ==
    /\ disk[lock_path] # None => disk[lock_path][1].written = "full"
    /\ rd_seen # None =>
           /\ rd_seen[1].written = "full"
           /\ rd_seen = rd_at_open

\* parse has loaded the manifest it opened although an update has renamed a
\* new file over the canonical path since, and another temp file is half written
C5_Witness ==
    /\ rd_pc = "returned"
    /\ rd_seen # None
    /\ disk[lock_path][1].ino # rd_seen[1].ino
    /\ disk[temp_path] # None
    /\ disk[temp_path][1].written = "partial"

\* the paths and digests of a list of records, as a {path: md5} mapping
C6_Hashes(records) ==
    IF records = None THEN EmptyMap
    ELSE [p \in {records[1][i].path : i \in 1..Len(records[1])} |->
             (CHOOSE r \in {records[1][i] : i \in 1..Len(records[1])} : r.path = p).md5]

\* C6: the rename of one update_stage call replaces stages[stage.name] by the
\* new entry alone (no deps or outs list when the new one is empty) and
\* leaves every other stage's entry and a schema already present unchanged.
C6_UpdateFrame ==
    [][\A s \in Names :
          (pc[s] = "rename" /\ pc'[s] = "release") =>
              LET before == canonical(disk)
                  after == canonical(disk')
                  old == C4_StagesOf(before)
                  new == C4_StagesOf(after)
              IN  /\ DOMAIN new = (DOMAIN old) \cup {s}
                  /\ \A n \in (DOMAIN old) \ {s} : new[n] = old[n]
                  /\ before.schema # None => after.schema = before.schema
                  /\ new[s].cmd = upd[s].cmd
                  /\ (new[s].deps = None) <=> (DOMAIN upd[s].deps_hashes = {})
                  /\ (new[s].outs = None) <=> (DOMAIN upd[s].outs_hashes = {})
                  /\ C6_Hashes(new[s].deps) = upd[s].deps_hashes
                  /\ C6_Hashes(new[s].outs) = upd[s].outs_hashes
      ]_vars

\* the first update of a has replaced its prior entry, which had deps and
\* outs, by one without them, in a manifest of schema 1.0 that holds stage z
C6_Witness ==
    /\ pc["a"] = "release"
    /\ upd_calls["a"] = 1
    /\ canonical(disk).schema = Some("1.0")
    /\ "z" \in DOMAIN C4_StagesOf(canonical(disk))
    /\ C4_StagesOf(canonical(disk))["a"].deps = None
    /\ C4_StagesOf(canonical(disk))["a"].outs = None

\* C17: while an update_stage call is between taking the sidecar lock and
\* the end of its temp-file write, no step changes the file at the canonical
\* path, the step in which the write fails included: after a failed write
\* the manifest is the previous one and parses to the same stage states.
C17_WriteFailureKeepsManifest ==
    [][(\E s \in Names : pc[s] \in {"read", "open_tmp", "write"}) =>
          /\ disk'[lock_path] = disk[lock_path]
          /\ parse_doc(canonical(disk')) = parse_doc(canonical(disk))
      ]_vars

\* a's write has failed half-way: its temp file is left partial, and the
\* manifest still holds what b's earlier update renamed into place
C17_Witness ==
    /\ pc["a"] = "raised"
    /\ disk[temp_path] # None
    /\ disk[temp_path][1].written = "partial"
    /\ last_entry["b"] # None
    /\ last_entry["a"] = None
    /\ DOMAIN parse_doc(canonical(disk)) = {"b"}

\* C18 as stated: a call that waits for the sidecar lock while another
\* process holds it is never stuck: it has a step of its own to take (the
\* end of its retry window, raising LockContention) whether or not the other
\* process ever releases the lock.
C18_WaitIsBounded ==
    \A s \in Names :
        (pc[s] = "acquire" /\ file_lock = Some(OtherProcess)) => ENABLED update_stage(s)

\* the {path: md5} dict a StageState's deps or outs hold
C23_Md5s(infos) == [p \in DOMAIN infos |-> infos[p].md5]

\* parse of the entry update_stage would write for the recorded state st
\* (the sizes are measured again, on files that have not changed)
C23_Reparsed(st) ==
    parse_stage(build_stage_entry(st.cmd, C23_Md5s(st.deps), C23_Md5s(st.outs), fs))

\* C23: manifest round trip. Once update_stage(stage, deps_hashes,
\* outs_hashes) has renamed the temp file, parse gives for stage.name the
\* command of the call, deps keyed by exactly the paths of deps_hashes with
\* the same digests, and outs likewise for outs_hashes; and writing back any
\* stage state parsed from the manifest and parsing it again gives the same
\* state.
C23_RoundTrip ==
    [][\A s \in Names :
          (pc[s] = "rename" /\ pc'[s] = "release") =>
              LET parsed == parse_doc(canonical(disk')) IN
              /\ s \in DOMAIN parsed
              /\ parsed[s].cmd = upd[s].cmd
              /\ C23_Md5s(parsed[s].deps) = upd[s].deps_hashes
              /\ C23_Md5s(parsed[s].outs) = upd[s].outs_hashes
              /\ \A p \in DOMAIN parsed[s].deps : parsed[s].deps[p].path = p
              /\ \A p \in DOMAIN parsed[s].outs : parsed[s].outs[p].path = p
              /\ \A n \in DOMAIN parsed : C23_Reparsed(parsed[n]) = parsed[n]
      ]_vars

\* a call with a dep and a changed out has just renamed the temp file onto a
\* manifest that holds other stages as well
C23_Witness ==
    \E s \in Writers :
        /\ pc[s] = "release"
        /\ upd[s].deps_hashes = [p \in {"x.txt"} |-> md5_of(1)]
        /\ upd[s].outs_hashes = [p \in {OutOf(s)} |-> md5_of(2)]
        /\ Cardinality(DOMAIN parse_doc(canonical(disk))) >= 2

\* the position of path p in sorted order
C24_Rank(p) == CHOOSE i \in 1..Len(PathOrder) : PathOrder[i] = p

\* a deps / outs list of an entry: left out for an empty dict, else one
\* record per path of the dict, by path ascending
C24_ListShape(records, hashes) ==
    IF DOMAIN hashes = {} THEN records = None
    ELSE /\ records # None
         /\ Len(records[1]) = Cardinality(DOMAIN hashes)
         /\ {records[1][i].path : i \in 1..Len(records[1])} = DOMAIN hashes
         /\ \A i \in 1..(Len(records[1]) - 1) :
                C24_Rank(records[1][i].path) < C24_Rank(records[1][i + 1].path)

\* C24: the manifest the rename of update_stage puts in place has a schema
\* field ('2.0' when the manifest read had none) and a stages mapping, and
\* the entry written for the stage has no deps (outs) list when deps_hashes
\* (outs_hashes) is empty, else a list with one record per path, ordered by
\* path ascending.
C24_WrittenEntryShape ==
    [][\A s \in Names :
          (pc[s] = "rename" /\ pc'[s] = "release") =>
              LET before == canonical(disk)
                  after == canonical(disk')
              IN  /\ after.schema # None
                  /\ before.schema = None => after.schema = Some("2.0")
                  /\ after.stages # None
                  /\ s \in DOMAIN after.stages[1]
                  /\ C24_ListShape(after.stages[1][s].deps, upd[s].deps_hashes)
                  /\ C24_ListShape(after.stages[1][s].outs, upd[s].outs_hashes)
      ]_vars

\* an entry with two deps and one out is in place in a manifest that had no
\* schema field, next to an entry without deps
C24_Witness ==
    \E s \in Writers :
        LET doc == canonical(disk) IN
        /\ pc[s] = "release"
        /\ Cardinality(DOMAIN upd[s].deps_hashes) = 2
        /\ doc.schema = Some("2.0")
        /\ \E n \in DOMAIN doc.stages[1] : doc.stages[1][n].deps = None

\* the workers inside the critical section of update_stage: past the
\* acquisition of the sidecar lock and not yet past its release
C27_InSection == {s \in Names : pc[s] \in {"read", "open_tmp", "write", "rename", "release"}}

\* at most one worker is in the section, and it is the holder of the lock
C27_Exclusive ==
    /\ Cardinality(C27_InSection) <= 1
    /\ \A s \in C27_InSection : file_lock = Some(s)

\* C27: mutual exclusion of the manifest critical section. At every moment
\* at most one worker, thread or process, is between the read of the manifest
\* and the rename (or the release that follows it), and it holds the sidecar
\* lock all the while; every step that changes the manifest or the temp file
\* is a step of that worker inside the section.
C27_CriticalSection ==
    [][/\ C27_Exclusive
       /\ C27_Exclusive'
       /\ \A s \in C27_InSection : (pc'[s] \in {"read", "open_tmp", "write", "rename", "release"})
                                       => file_lock' = Some(s)
       /\ disk' # disk =>
              \E s \in C27_InSection :
                  /\ pc[s] \in {"open_tmp", "write", "rename"}
                  /\ file_lock = Some(s)
                  /\ \A u \in Names \ {s} : pc'[u] = pc[u]
      ]_vars

\* a is writing the temp file under the lock while b, which has called
\* update_stage, waits to acquire it
C27_Witness ==
    /\ pc["a"] = "write"
    /\ file_lock = Some("a")
    /\ pc["b"] = "acquire"
    /\ disk[temp_path] # None /\ disk[temp_path][1].written = "partial"

---------------------------------------------------------------------------
(* Claims about the scheduler (checked under Spec) *)

\* the level a stage is in
level_of(s) == CHOOSE k \in 1..Len(levels) : s \in Range(levels[k])

\* the stage's freshness check has begun (it may have ended since)
started(s) == pc[s] \notin {"idle", "queued"}

\* _execute_stage has ended for the stage, with a result or an exception
terminated(s) == pc[s] = "done" /\ ret[s] # None

\* C1: level barrier. Whenever a stage has started (freshness check, runner,
\* hashing or manifest write), every stage of every earlier level has
\* terminated; a stage of a later level is never started first.
C1_LevelBarrier ==
    \A s \in Names : \A u \in Names :
        (started(s) /\ level_of(u) < level_of(s)) => terminated(u)

\* a stage of the second level starts after a pool level in which one stage
\* was skipped and the other executed
C1_Witness ==
    /\ Len(levels) = 2
    /\ levels[1] = <<"a", "b">>
    /\ pc["c"] = "start"
    /\ ret["a"] # None /\ ret["a"][1].exc = "" /\ ret["a"][1].val.skipped
    /\ ret["b"] # None /\ ret["b"][1].exc = "" /\ ret["b"][1].val.message = <<"completed">>

\* the stages whose result has success = false: a returned failure, or an
\* exception the as_completed loop turned into a failed result
C2_Failed ==
    {s \in Names : /\ ret[s] # None
                   /\ ~ret[s][1].val.success
                   /\ (ret[s][1].exc = "" \/ cpc \in {"pool", "check", "failed"})}

C2_HasFailure(rs) == \E i \in 1..Len(rs) : ~rs[i].success

\* C2: a failure stops the pipeline at the level boundary. Once a stage of
\* level k has a failed result, execute stays in level k and never returns
\* normally; no stage of a later level is started, run or written to the
\* manifest; and when level k's results are checked, execute raises.
C2_FailureStopsPipeline ==
    /\ [](\A s \in C2_Failed :
            /\ level = level_of(s)
            /\ cpc \in {"inline", "pool", "check", "failed"}
            /\ \A u \in Names :
                  level_of(u) > level_of(s) =>
                      /\ pc[u] = "idle"
                      /\ runner_calls[u] = 0
                      /\ upd_calls[u] = 0
                      /\ ret[u] = None)
    /\ [](C2_HasFailure(results) => cpc = "failed")
    /\ [][(cpc = "check" /\ C2_HasFailure(level_results)) => cpc' = "failed"]_vars

\* the first stage of a three-level chain failed: execute has raised and
\* the two later stages were never started
C2_Witness ==
    /\ Len(levels) = 3
    /\ cpc = "failed"
    /\ level = 1
    /\ C2_Failed = {"a"}
    /\ runner_calls["a"] = 1
    /\ pc["b"] = "idle" /\ pc["c"] = "idle"

\* C3: a failure in a multi-stage level does not cancel its siblings. When
\* _execute_level has returned from a pool level (and when execute has raised
\* for it), every stage of the level has ended and its result was collected,
\* exactly once.
C3_SiblingsAwaited ==
    (cpc \in {"check", "failed"} /\ Len(levels[level]) > 1) =>
        /\ \A u \in Range(levels[level]) : terminated(u) /\ u \in collected
        /\ Len(level_results) = Len(levels[level])

\* stage a's failure was collected first; its sibling b still ran its
\* command, wrote the manifest and was collected as 'completed'
C3_Witness ==
    /\ cpc = "failed"
    /\ levels[level] = <<"a", "b">>
    /\ level_results[1].stage_name = "a"
    /\ ~level_results[1].success
    /\ level_results[2] = ExecutionResult("b", TRUE, FALSE, <<"completed">>)
    /\ runner_calls["b"] = 1
    /\ last_entry["b"] # None

\* is_stage_fresh(S, parse()[S.name]) on the manifest and files as they are
C10_Fresh(s) ==
    is_stage_fresh(stages[s], DictGet(parse_doc(canonical(disk)), s), fs) = Ret(TRUE)

\* C10 as stated: after a run that returned normally, every stage the run
\* executed is fresh against the re-read manifest.
C10_ExecutedAreFresh ==
    cpc = "returned" => \A s \in executed(results) : C10_Fresh(s)

\* C10 amended: after a run that returned normally, every executed stage for
\* which no declared path's hash was left out is fresh against the re-read
\* manifest; and a run that follows a run in which no hash was left out calls
\* the runner for no stage, ends no stage with an exception or a failure, and
\* reports every stage as skipped with the reason 'up-to-date'.
C10_FreshUnlessOmitted ==
    /\ cpc = "returned" =>
          \A s \in executed(results) \ omitted(results) : C10_Fresh(s)
    /\ (prev_run # None /\ prev_run[1].omitted = {}) =>
          /\ \A s \in Names :
                /\ runner_calls[s] = 0
                /\ ret[s] # None =>
                      ret[s][1] = Ret(ExecutionResult(s, TRUE, TRUE, UpToDate))
          /\ cpc \notin {"failed", "crashed"}
          /\ cpc = "returned" => Len(results) = Cardinality(Names)

\* the first run executed all three stages and left no hash out; the second
\* run has returned with three skipped results
C10_Witness ==
    /\ run = 2
    /\ cpc = "returned"
    /\ prev_run # None
    /\ prev_run[1].executed = Names
    /\ prev_run[1].omitted = {}
    /\ Len(results) = 3
    /\ \A i \in 1..3 : results[i].skipped /\ results[i].message = UpToDate

\* C11: a stage whose runner returned an error has ended with the result
\* success = false, skipped = false and the runner's error as message, has
\* made no update_stage call, and its manifest entry is what it was when the
\* run began.
C11_RunnerFailureRecorded ==
    \A s \in Names :
        runner_out[s] = Some("failed") =>
            /\ pc[s] = "done"
            /\ ret[s] = Some(Ret(ExecutionResult(s, FALSE, FALSE, <<"Stage failed", s>>)))
            /\ upd_calls[s] = 0
            /\ DictGet(parse_doc(canonical(disk)), s) = DictGet(lock_states, s)

\* b's runner failed while its sibling a ran and committed a new entry: the
\* manifest changed, b's recorded entry did not
C11_Witness ==
    /\ runner_out["b"] = Some("failed")
    /\ DictGet(lock_states, "b") # None
    /\ pc["a"] = "done"
    /\ upd_calls["a"] = 1
    /\ DictGet(parse_doc(canonical(disk)), "a") # DictGet(lock_states, "a")

\* C12 as stated: a stage whose runner returned normally ends with the
\* 'completed' result (success = true, skipped = false), whatever happened
\* when its declared deps and outs were hashed.
C12_HashFailureDoesNotFailStage ==
    \A s \in Names :
        (runner_out[s] = Some("returned") /\ pc[s] = "done") =>
            ret[s] = Some(Ret(ExecutionResult(s, TRUE, FALSE, <<"completed">>)))

\* C15 as stated: the results _execute_level returns for a level are in the
\* order of the level (sorted by stage name), whatever order the stages
\* completed in.
C15_LevelResultsSorted ==
    cpc = "check" =>
        [i \in 1..Len(level_results) |-> level_results[i].stage_name] = levels[level]

C19_RunnerUnavailableIsFatal ==
    \A s \in Names :
        runner_out[s] = Some("unavailable") => (ret[s] # None /\ ret[s][1].exc # "")

\* u -> v: stage v declares a dep that stage u declares as an out
C21_Edge(u, v) == Range(stages[u].outs) \cap Range(stages[v].deps) # {}

\* C21: the levels the scheduler walks are a topological layering. Every
\* stage is in exactly one level, once; every edge u -> v goes from a level
\* to a strictly higher one, so no level holds both ends of an edge; and a
\* stage that is queued or running belongs to the level being walked.
C21_LevelsAreTopological ==
    /\ \A s \in DOMAIN stages :
           Cardinality({k \in 1..Len(levels) : s \in Range(levels[k])}) = 1
    /\ \A k \in 1..Len(levels) :
           /\ Range(levels[k]) \subseteq DOMAIN stages
           /\ Cardinality(Range(levels[k])) = Len(levels[k])
           /\ \A u \in Range(levels[k]) : \A v \in Range(levels[k]) : ~C21_Edge(u, v)
    /\ \A u \in DOMAIN stages : \A v \in DOMAIN stages :
           C21_Edge(u, v) => level_of(u) < level_of(v)
    /\ \A s \in Names :
           pc[s] \notin {"idle", "done"} => (level <= Len(levels) /\ s \in Range(levels[level]))

\* the chain a -> b -> c: the scheduler runs c in the third level after a and
\* b ended in the first and the second
C21_Witness ==
    /\ C21_Edge("a", "b") /\ C21_Edge("b", "c")
    /\ Len(levels) = 3
    /\ level = 3
    /\ started("c")
    /\ terminated("a") /\ terminated("b")

\* execute has just begun: no stage of the run has been queued or started
C25_AtStart == cpc = "level" /\ level = 1 /\ \A s \in Names : pc[s] = "idle"

\* some stage's result of this run is a skip
C25_Skipped ==
    \/ \E i \in 1..Len(results) : results[i].skipped
    \/ \E s \in Names : ret[s] # None /\ ret[s][1].exc = "" /\ ret[s][1].val.skipped

\* execute has ended: it returned, raised 'Stage(s) failed', or an exception
\* of an inline stage left it
C25_Ended == cpc \in {"returned", "failed", "crashed"}

\* C25 as stated: a run started without a manifest, or with one that has no
\* stages section, skips no stage and has invoked the runner for every stage
\* of the DAG when it ends.
C25_NoManifestRunsEveryStage ==
    (lock_states = EmptyMap /\ C25_Ended) =>
        /\ ~C25_Skipped
        /\ \A s \in DOMAIN stages : runner_calls[s] >= 1

\* C25, amended: with no manifest file, or one without a stages section,
\* the snapshot parse gives is the empty mapping; a run with that snapshot
\* skips no stage and invokes the runner for every stage it reaches, which
\* is every stage of the DAG when execute returns.
C25_NoManifestRunsReachedStages ==
    /\ (C25_AtStart /\ canonical(disk).stages = None) => lock_states = EmptyMap
    /\ lock_states = EmptyMap =>
           /\ ~C25_Skipped
           /\ \A s \in Names : (pc[s] = "done" \/ pc[s] = "hash") => runner_calls[s] >= 1
           /\ \A s \in Names : \A u \in Names :
                  (started(s) /\ level_of(u) < level_of(s)) => runner_calls[u] >= 1
           /\ cpc = "returned" => \A s \in DOMAIN stages : runner_calls[s] >= 1

\* a first run that found no recorded stage has returned: each of the three
\* stages was run once, none was skipped, and the manifest now records them
C25_Witness ==
    /\ run = 1
    /\ lock_states = EmptyMap
    /\ cpc = "returned"
    /\ Len(results) = 3
    /\ \A s \in Names : runner_calls[s] = 1
    /\ DOMAIN parse_doc(canonical(disk)) = Names

\* the results execute has gathered, those of the level at hand included
C28_Gathered == results \o level_results

\* C28 as stated: once the level of a stage is over, an error raised while
\* the stage was executed (by the runner, the hashing or the manifest update)
\* has become a result with success = false for that stage among the
\* gathered results, in an inline level as in a pool level.
C28_StageErrorsCaptured ==
    \A s \in Names :
        (pc[s] = "done" /\ ret[s] # None /\ ret[s][1].exc # "" /\ cpc \notin {"inline", "pool"}) =>
            \E i \in 1..Len(C28_Gathered) :
                C28_Gathered[i].stage_name = s /\ ~C28_Gathered[i].success

\* the manifest holds for stage s the entry s last renamed into place
C29_Committed(s) ==
    LET doc == canonical(disk) IN
    /\ doc.stages # None
    /\ s \in DOMAIN doc.stages[1]
    /\ last_entry[s] # None
    /\ doc.stages[1][s] = last_entry[s][1]

\* C29: complete failure report with partial progress. execute raises the
\* 'Stage(s) failed' error exactly when it is in the failed state; the error
\* names, once each, exactly the stages of the level whose result has
\* success = false, and every stage the run executed with success, in the
\* failed level or before it, has the entry it committed in the manifest.
C29_FailureReport ==
    /\ (cpc = "failed") <=> (failed_stages # None)
    /\ cpc = "failed" =>
           /\ Range(failed_stages[1]) = C2_Failed
           /\ C2_Failed \subseteq Range(levels[level])
           /\ Len(failed_stages[1]) = Cardinality(C2_Failed)
           /\ \A s \in executed(results) : C29_Committed(s)

\* the level [a, b] has failed: both stages ran, the error names a alone,
\* and the entry of b, which succeeded beside it, is in the manifest
C29_Witness ==
    /\ cpc = "failed"
    /\ levels[1] = <<"a", "b">>
    /\ Range(failed_stages[1]) = {"a"}
    /\ executed(results) = {"b"}
    /\ C29_Committed("b")
    /\ runner_calls["c"] = 0

\* the verdict of the freshness check of s against the startup snapshot
C30_SnapshotVerdict(s) == is_stage_fresh(stages[s], DictGet(lock_states, s), fs)

\* C30: lock_states is what parse returned when the scheduler was
\* constructed and no step of the run changes it, whatever stage completes,
\* fails or updates the manifest (only the construction for a new run loads
\* it again); each freshness check goes the way the verdict against that
\* snapshot says.
C30_SnapshotReadOnly ==
    [][/\ lock_states' # lock_states => run' # run
       /\ C25_AtStart' => lock_states' = parse_doc(canonical(disk'))
       /\ \A s \in Names :
              (pc[s] = "start" /\ pc'[s] # "start") =>
                  /\ pc'[s] = "reason" <=>
                         (C30_SnapshotVerdict(s).exc = "" /\ C30_SnapshotVerdict(s).val)
                  /\ pc'[s] = "run" <=>
                         (C30_SnapshotVerdict(s).exc = "" /\ ~C30_SnapshotVerdict(s).val)
      ]_vars

\* a stage is found fresh against the snapshot after another stage of the
\* run has completed and changed the manifest on disk
C30_Witness ==
    \E s \in Names :
        /\ pc[s] = "reason"
        /\ lock_states # EmptyMap
        /\ parse_doc(canonical(disk)) # lock_states
        /\ \E u \in Names \ {s} : terminated(u) /\ ret[u][1].val.message = <<"completed">>

\* stage u ran in this run and left its out p, a dep of v, with a digest
\* other than the one v's snapshot records for p
C31_ChangedUpstream(u, p, v) ==
    /\ u # v
    /\ p \in Range(stages[u].outs) \cap Range(stages[v].deps)
    /\ runner_out[u] = Some("returned")
    /\ v \in DOMAIN lock_states
    /\ p \in DOMAIN lock_states[v].deps
    /\ fs[p].kind = "file"
    /\ md5_of(fs[p].data) # lock_states[v].deps[p].md5

\* C31: upstream changes reach downstream stages within one run. When a
\* stage u was executed again in this run and its out p now has a digest
\* other than the one recorded for p in the snapshot deps of a consumer v, v
\* is not skipped: its freshness check does not find it fresh and no skipped
\* result is made for it.
C31_UpstreamChangeReruns ==
    \A u \in DOMAIN stages : \A v \in DOMAIN stages : \A p \in Paths :
        C31_ChangedUpstream(u, p, v) =>
            /\ pc[v] # "reason"
            /\ ret[v] # None => ~ret[v][1].val.skipped
            /\ \A i \in 1..Len(results) : results[i].stage_name = v => ~results[i].skipped

\* a was run again and wrote a.txt with a new content; b, recorded with the
\* old a.txt and with cmd and b.txt as they still are, is sent to the runner
C31_Witness ==
    /\ C31_ChangedUpstream("a", "a.txt", "b")
    /\ terminated("a")
    /\ pc["b"] = "run"
    /\ lock_states["b"].cmd = stages["b"].cmd
    /\ fs["b.txt"] = RegularFile(1)
    /\ lock_states["b"].outs["b.txt"].md5 = md5_of(1)

---------------------------------------------------------------------------
(* Claims about the scheduler beside another process (checked under RaceSpec) *)

\* C33 as stated: every result with skipped = true has success = true and the
\* message 'up-to-date', also when a file is modified between is_stage_fresh
\* and get_freshness_reason; and for a skipped stage the runner was not
\* invoked and update_stage was not called.
C33_SkippedIsUpToDate ==
    \A s \in Names :
        (ret[s] # None /\ ret[s][1].val.skipped) =>
            /\ ret[s][1].exc = ""
            /\ ret[s][1].val.success
            /\ ret[s][1].val.message = UpToDate
            /\ runner_calls[s] = 0
            /\ upd_calls[s] = 0

---------------------------------------------------------------------------
(* Claims about the constructor's options (checked under OptSpec) *)

\* the executor was built with update_lock=False, or in dry-run
C35_NoRecording == ~update_lock \/ dry_run

\* C35: in a run of an executor built with update_lock=False (or in dry-run)
\* update_stage is never called and the manifest's lock never taken, and no
\* step creates or changes the manifest file or a temporary file beside it,
\* however the stages end; and a stage whose runner returned reports the
\* 'completed' result with success = true, whatever its deps and outs are
\* (nothing hashes them, so an unreadable file does not fail the stage).
C35_NoWriterLeavesManifest ==
    /\ [](C35_NoRecording =>
             /\ file_lock = None
             /\ \A s \in Names :
                    /\ upd_calls[s] = 0
                    /\ pc[s] \notin {"acquire", "updated"}
                    /\ (runner_out[s] = Some("returned") /\ ret[s] # None) =>
                           ret[s][1] = Ret(ExecutionResult(s, TRUE, FALSE, <<"completed">>)))
    /\ [][C35_NoRecording => disk' = disk]_vars

C35_Witness ==
    /\ ~update_lock
    /\ ~dry_run
    /\ cpc = "failed"
    /\ fs["x.txt"] = UnreadableFile
    /\ ret["a"] = Some(Ret(ExecutionResult("a", TRUE, FALSE, <<"completed">>)))
    /\ runner_out["b"] = Some("failed")
    /\ disk[lock_path] = None

---------------------------------------------------------------------------
(* Claims about the command line (checked under CliSpec) *)

\* the DAG main hands to the executor for invocation c, had no step failed
DagOf(c) ==
    LET r == yaml_parse(c.yaml) IN
    IF r.exc # "" THEN None
    ELSE IF c.targets = {} THEN Some(r.val)
    ELSE IF filter_to_targets(r.val, c.targets).exc # "" THEN None
    ELSE Some(filter_to_targets(r.val, c.targets).val)

\* the pipeline file exists and parses to at least one stage, every target is
\* a stage, and the graph has no cycle
ValidInvocation(c) ==
    /\ DagOf(c) # None
    /\ DOMAIN yaml_parse(c.yaml).val # {}
    /\ check_cycles(DagOf(c)[1]) = None

\* C13 as stated, for the command line: a --dry-run invocation on a valid
\* pipeline, with no visualization export asked for, ends with exit code 0.
C13_DryRunExitsZero ==
    (cli.pc = "exit" /\ cli.dry_run /\ cli.export = "none" /\ ValidInvocation(cli)) =>
        cli.exit_code = Some(0)

\* C14 as stated: when main has ended a run in force mode (validate, with a
\* dvc.lock to compare with), the runner was invoked for every stage.
C14_ForceRunsEveryStage ==
    (cli.pc = "exit" /\ cli.validate /\ cli.backup # None /\ ~cli.dry_run) =>
        \A s \in DOMAIN cli.dag : runner_calls[s] >= 1

\* C20 as stated: an invocation whose pipeline file is missing or malformed,
\* whose target is unknown or whose graph has a cycle never reaches the
\* construction of the executor and ends with exit code 1.
C20_InvalidInputExitsOne ==
    ~ValidInvocation(cli) =>
        /\ cli.pc \notin {"export", "validate", "construct", "execute"}
        /\ cli.pc = "exit" => cli.exit_code = Some(1)

\* C22 as stated, for the exit code 0: an invocation that runs a valid
\* pipeline (no export, no dry run, no validation) in which no stage has
\* success = false ends with exit code 0, and only an invocation on a valid
\* pipeline ends with exit code 0.
C22_SuccessExitsZero ==
    cli.pc = "exit" =>
        /\ (/\ ValidInvocation(cli)
            /\ cli.export = "none" /\ ~cli.dry_run /\ ~cli.validate
            /\ C2_Failed = {}) => cli.exit_code = Some(0)
        /\ cli.exit_code = Some(0) => ValidInvocation(cli)

\* the pipeline file parses, to zero stages
C26_EmptyPipeline(c) == yaml_parse(c.yaml).exc = "" /\ DOMAIN yaml_parse(c.yaml).val = {}

\* C26 as stated: an invocation on an empty pipeline (a dvc.yaml whose stages
\* section holds no stage) raises no error and ends with exit code 0.
C26_EmptyPipelineSucceeds ==
    (cli.pc = "exit" /\ C26_EmptyPipeline(cli)) =>
        cli.exit_code = Some(0) /\ cli.error = ""

---------------------------------------------------------------------------
(* Claims about the freshness oracle (checked under FreshSpec) *)

\* the recorded map a check on a "dependency" or an "output" looks into
C7_Recorded(st, what) == IF what = "dependency" THEN st[1].deps ELSE st[1].outs

\* path p is recorded, exists on disk and its current digest is the recorded md5
C7_PathMatches(p, st, what, files) ==
    /\ p \in DOMAIN C7_Recorded(st, what)
    /\ files[p].kind # "missing"
    /\ files[p].kind = "file"
    /\ md5_of(files[p].data) = C7_Recorded(st, what)[p].md5

C7_AllHold(stage, st, files) ==
    /\ st # None
    /\ stage.cmd = st[1].cmd
    /\ \A i \in 1..Len(stage.deps) : C7_PathMatches(stage.deps[i], st, "dependency", files)
    /\ \A i \in 1..Len(stage.outs) : C7_PathMatches(stage.outs[i], st, "output", files)

\* C7: is_stage_fresh returns true if and only if the recorded state is
\* present, the command is the recorded one, and every declared dep and every
\* declared out is recorded, exists and has the recorded digest.
C7_FreshIffAllHold ==
    q_fresh # None =>
        ((q_fresh[1].exc = "" /\ q_fresh[1].val) <=> C7_AllHold(q_stage, q_state, fs))

\* the oracle answered "not fresh" for a stage whose command and deps all
\* match and whose only failing path is a modified or deleted output
C7_Witness ==
    /\ q_fresh # None
    /\ q_fresh[1] = Ret(FALSE)
    /\ q_state # None
    /\ q_stage.cmd = q_state[1].cmd
    /\ Len(q_stage.deps) > 0
    /\ \A i \in 1..Len(q_stage.deps) :
           C7_PathMatches(q_stage.deps[i], q_state, "dependency", fs)
    /\ \E i \in 1..Len(q_stage.outs) :
           /\ q_stage.outs[i] \in DOMAIN q_state[1].outs
           /\ fs[q_stage.outs[i]] \in {Missing, RegularFile(2)}

\* the checks of the oracle in their fixed order: recorded state present,
\* command equal, then per dep in declared order recorded / exists / digest,
\* then the same per out
C8_PathChecks(what, paths) ==
    [k \in 1..(3 * Len(paths)) |->
        [what |-> what,
         path |-> paths[((k - 1) \div 3) + 1],
         pred |-> <<"recorded", "exists", "digest">>[((k - 1) % 3) + 1]]]

C8_Checks(stage) ==
    <<[what |-> "stage", path |-> "", pred |-> "state"],
      [what |-> "stage", path |-> "", pred |-> "cmd"]>>
    \o C8_PathChecks("dependency", stage.deps)
    \o C8_PathChecks("output", stage.outs)

C8_Holds(chk, stage, st, files) ==
    CASE chk.pred = "state"    -> st # None
      [] chk.pred = "cmd"      -> st # None /\ stage.cmd = st[1].cmd
      [] chk.pred = "recorded" -> st # None /\ chk.path \in DOMAIN C7_Recorded(st, chk.what)
      [] chk.pred = "exists"   -> files[chk.path].kind # "missing"
      [] OTHER                 -> st # None /\ C7_PathMatches(chk.path, st, chk.what, files)

\* index of the first failing check, 0 when none fails
C8_FirstFailing(stage, st, files) ==
    LET cs == C8_Checks(stage)
        failing == {k \in 1..Len(cs) : ~C8_Holds(cs[k], stage, st, files)}
    IN  IF failing = {} THEN 0
        ELSE CHOOSE k \in failing : \A j \in failing : k <= j

\* the reason that names a failing check
C8_Report(chk, files) ==
    CASE chk.pred = "state"    -> <<"never run before">>
      [] chk.pred = "cmd"      -> <<"command changed">>
      [] chk.pred = "recorded" -> <<"new", chk.what, chk.path>>
      [] chk.pred = "exists"   -> <<"missing", chk.what, chk.path>>
      [] OTHER                 -> IF files[chk.path].kind = "file"
                                  THEN <<chk.what, "changed", chk.path>>
                                  ELSE <<"error reading", chk.what, chk.path>>

\* C8: a reason returned by get_freshness_reason names the first failing
\* check in the fixed order (state, command, each dep in declared order, each
\* out in declared order), and is 'up-to-date' only when no check fails; when
\* the call raises instead, the first failing check is a digest check.
C8_FirstFailingCheckReported ==
    q_reason # None =>
        LET k == C8_FirstFailing(q_stage, q_state, fs)
            cs == C8_Checks(q_stage)
        IN  IF q_reason[1].exc = ""
            THEN q_reason[1].val = (IF k = 0 THEN UpToDate ELSE C8_Report(cs[k], fs))
            ELSE k # 0 /\ cs[k].pred = "digest"

\* a dependency reason is reported while an output check fails as well
C8_Witness ==
    /\ q_reason # None
    /\ q_reason[1].exc = ""
    /\ Len(q_reason[1].val) = 3
    /\ q_reason[1].val[1] = "missing"
    /\ q_reason[1].val[2] = "dependency"
    /\ \E i \in 1..Len(q_stage.outs) :
           ~C7_PathMatches(q_stage.outs[i], q_state, "output", fs)

\* the first failing check is the digest check of an existing file whose
\* hash cannot be computed
C9_HashFails(stage, st, files) ==
    LET k == C8_FirstFailing(stage, st, files)
        cs == C8_Checks(stage)
    IN  /\ k # 0
        /\ cs[k].pred = "digest"
        /\ files[cs[k].path].kind \in {"special", "unreadable"}

\* C9: a hash-computation failure on an existing declared file gives a
\* not-fresh verdict and an 'error reading' reason, never an exception out of
\* is_stage_fresh or get_freshness_reason.
C9_HashFailureIsNotFresh ==
    C9_HashFails(q_stage, q_state, fs) =>
        /\ q_fresh # None => q_fresh[1] = Ret(FALSE)
        /\ q_reason # None =>
               /\ q_reason[1].exc = ""
               /\ q_reason[1].val[1] = "error reading"

\* C32: the two oracle functions agree on a fixed file-system state. For the
\* same stage, recorded state and files, is_stage_fresh returns true exactly
\* when get_freshness_reason returns 'up-to-date'.
C32_OraclesAgree ==
    (q_fresh # None /\ q_reason # None) =>
        ((q_fresh[1].exc = "" /\ q_fresh[1].val = TRUE) <=>
         (q_reason[1].exc = "" /\ q_reason[1].val = UpToDate))

\* both functions were called for a stage with a dep and an out that are as
\* recorded: the verdict is true and the reason is 'up-to-date'
C32_Witness ==
    /\ q_fresh = Some(Ret(TRUE))
    /\ q_reason = Some(Ret(UpToDate))
    /\ Len(q_stage.deps) >= 1
    /\ Len(q_stage.outs) >= 1

====
